---- MODULE Spec2Model ----
(***************************************************************************)
(* State-machine model of server.js: the register / login endpoints over   *)
(* the User collection, and the make-call / call-status / end-call         *)
(* endpoints over the CallSession collection and the voice-call provider.  *)
(*                                                                         *)
(* Every handler is an async function.  It runs without interruption from  *)
(* one `await` to the next, so each action below is one such segment: the  *)
(* completion of the awaited store or provider operation together with     *)
(* the synchronous code that follows it, up to the next await or to the    *)
(* response.  Segments of different requests interleave freely.            *)
(***************************************************************************)
EXTENDS Integers, Sequences, FiniteSets, TLC

\* ------------------------------------------------------------------ bounds
\* Requests that may be in flight at the same time.  A slot is reused when
\* its response has been delivered, so runs hold any number of requests.
MaxReqs == 2
\* Conversation ids the provider issues (1 .. MaxConv); MaxConv + 1 is a
\* call id that never names a session.
MaxConv == 2
\* The clock advances at most MaxTicks times.
MaxTicks == 2

Reqs == 1 .. MaxReqs
\* Milliseconds by which the clock advances between two handler segments:
\* half a second, so that Math.floor has something to round.
TickMs == {500}

\* ------------------------------------------------------------------ inputs
\* A missing or empty body field: `!x` is true of it.
Missing == ""
Usernames == {"alice", "bob"}
Mobiles == {"m1", "m2"}
Passwords == {"p1", "p2"}
PhoneNumbers == {"+15551234567"}
\* The :callId route parameter.
CallIdParams == 1 .. (MaxConv + 1)
\* response.data.conversation_id when the provider's answer carries none.
NoConv == 0
\* endTime and duration of a session that has none (undefined).
Undefined == -1

VARIABLES
  apiKey,     \* ELEVENLABS_API_KEY, read once at start-up
  now,        \* Date.now(), in milliseconds
  users,      \* the User collection, in insertion order
  sessions,   \* the CallSession collection, in insertion order
  nextConv,   \* the provider: the next conversation id it will issue
  pc,         \* per request: the await its handler is suspended at
  req,        \* per request: its route, req.body and req.params
  doc,        \* per request: the document found or constructed (<<>> = null)
  dirty,      \* per request: the modified paths of doc (mongoose tracks them)
  conv,       \* per request: response.data.conversation_id
  contacted,  \* per request: whether the handler has called the provider
  error,      \* per request: what the catch block caught
  res         \* per request: the response sent

vars == <<apiKey, now, users, sessions, nextConv, pc, req, doc, dirty, conv,
          contacted, error, res>>

callVars == <<now, sessions, nextConv>>

\* ------------------------------------------------------------------ values
NoReq == [route |-> "", username |-> Missing, mobile |-> Missing, password |-> Missing,
         phoneNumber |-> Missing, callId |-> NoConv]

\* An error object: error.name, error.response.status (0: no response),
\* error.code, error.response.data.detail and error.message.
Err(name, status, code, detail, message) ==
  [name |-> name, status |-> status, code |-> code, detail |-> detail,
   message |-> message]

NoError == Err("", 0, "", "", "")

\* What a failing store operation throws: a driver error with some text, or
\* an error without a message.
StoreErrors ==
  { Err("MongoError", 0, "", "", m) : m \in {"socket closed", ""} }

\* E11000: the unique index on User.username / CallSession.callId refuses
\* a second document with the same key.
DupKeyError == Err("MongoServerError", 0, "", "", "E11000 duplicate key error")

\* Mongoose validation: callId is `required`.
ValidationError == Err("ValidationError", 0, "", "", "CallSession validation failed")

\* What axios throws for the provider: an HTTP error status (with or without
\* a `detail` in the body), a timeout, or a network failure.
ProviderErrors ==
  { Err("AxiosError", s, "ERR_BAD_RESPONSE", d, "Request failed")
      : s \in {400, 401, 429, 500}, d \in {"", "upstream detail"} }
  \cup { Err("AxiosError", 0, "ECONNABORTED", "", "timeout of 30000ms exceeded"),
         Err("AxiosError", 0, "ERR_NETWORK", "", "Network Error") }

\* What axios throws for the provider's end-call request (no timeout is set).
EndProviderErrors ==
  { Err("AxiosError", 404, "ERR_BAD_REQUEST", "", "Request failed"),
    Err("AxiosError", 0, "ERR_NETWORK", "", "Network Error") }

\* A response: res.status(...).json({...}); fields a response does not carry
\* keep NoRes's value.
NoRes == [status |-> 0, success |-> FALSE, error |-> "", message |-> "",
          user |-> <<>>, callId |-> NoConv, sessionId |-> 0,
          callStatus |-> "", duration |-> Undefined, startTime |-> Undefined,
          endTime |-> Undefined]

Fail(status, text) == [NoRes EXCEPT !.status = status, !.error = text]

\* res.json({success: true, user: {username, mobile}})
UserOk(username, mobile) ==
  [NoRes EXCEPT !.status = 200, !.success = TRUE,
                !.user = <<[username |-> username, mobile |-> mobile]>>]

Min(S) == CHOOSE x \in S : \A y \in S : x <= y

\* ------------------------------------------------------------------ store
\* User.findOne({username}): the first matching document, or null.
FindUser(username) ==
  LET hit == {i \in DOMAIN users : users[i].username = username}
  IN IF hit = {} THEN <<>> ELSE <<users[Min(hit)]>>

\* The unique index on username (schema, `unique: true`).
UserKeyTaken(username) == \E i \in DOMAIN users : users[i].username = username

Init ==
  /\ apiKey \in {Missing, "xi-key"}
  /\ now = 0
  /\ users = <<>>
  /\ sessions = <<>>
  /\ nextConv = 1
  /\ pc = [r \in Reqs |-> "idle"]
  /\ req = [r \in Reqs |-> NoReq]
  /\ doc = [r \in Reqs |-> <<>>]
  /\ dirty = [r \in Reqs |-> {}]
  /\ conv = [r \in Reqs |-> NoConv]
  /\ contacted = [r \in Reqs |-> FALSE]
  /\ error = [r \in Reqs |-> NoError]
  /\ res = [r \in Reqs |-> NoRes]

\* The handler of request r answers with `response` and ends.
Reply(r, response) ==
  /\ res' = [res EXCEPT ![r] = response]
  /\ pc' = [pc EXCEPT ![r] = "done"]

\* The handler's catch block caught e and answers with `response`.
Caught(r, e, response) ==
  /\ error' = [error EXCEPT ![r] = e]
  /\ Reply(r, response)

\* ------------------------------------------------------- POST /api/register
RegisterCatch(e) == Fail(500, "Registration failed.")

\* The request arrives; the fields are checked and User.findOne is issued.
RegisterBegin(r) ==
  /\ pc[r] = "idle"
  /\ \E u \in Usernames \cup {Missing}, m \in Mobiles \cup {Missing},
        p \in Passwords \cup {Missing} :
       /\ req' = [req EXCEPT ![r] = [NoReq EXCEPT !.route = "register",
                                        !.username = u, !.mobile = m,
                                        !.password = p]]
       /\ IF u = Missing \/ m = Missing \/ p = Missing
            THEN Reply(r, Fail(400, "All fields are required."))
            ELSE /\ pc' = [pc EXCEPT ![r] = "reg_find"]
                 /\ UNCHANGED res
  /\ UNCHANGED <<apiKey, callVars, users, doc, dirty, conv, contacted, error>>

\* User.findOne answers (or throws); on no match, user.save() is issued.
RegisterFind(r) ==
  /\ pc[r] = "reg_find"
  /\ \E e \in StoreErrors \cup {NoError} :
       IF e # NoError
         THEN Caught(r, e, RegisterCatch(e))
         ELSE IF FindUser(req[r].username) # <<>>
           THEN Reply(r, Fail(409, "Username already exists.")) /\ UNCHANGED error
           ELSE /\ pc' = [pc EXCEPT ![r] = "reg_save"]
                /\ UNCHANGED <<res, error>>
  /\ UNCHANGED <<apiKey, callVars, users, req, doc, dirty, conv, contacted>>

\* The outcome of user.save(): the store throws, the unique index refuses
\* the insert, or the document is inserted.
SaveUserError(username, e) ==
  IF e # NoError THEN e
  ELSE IF UserKeyTaken(username) THEN DupKeyError
  ELSE NoError

RegisterSave(r) ==
  /\ pc[r] = "reg_save"
  /\ \E e \in StoreErrors \cup {NoError} :
       LET thrown == SaveUserError(req[r].username, e)
       IN IF thrown # NoError
            THEN Caught(r, thrown, RegisterCatch(thrown)) /\ UNCHANGED users
            ELSE /\ users' = Append(users, [username |-> req[r].username,
                                            mobile |-> req[r].mobile,
                                            password |-> req[r].password])
                 /\ Reply(r, UserOk(req[r].username, req[r].mobile))
                 /\ UNCHANGED error
  /\ UNCHANGED <<apiKey, callVars, req, doc, dirty, conv, contacted>>

\* ---------------------------------------------------------- POST /api/login
LoginCatch(e) == Fail(500, "Login failed.")

LoginBegin(r) ==
  /\ pc[r] = "idle"
  /\ \E u \in Usernames \cup {Missing}, p \in Passwords \cup {Missing} :
       /\ req' = [req EXCEPT ![r] = [NoReq EXCEPT !.route = "login",
                                        !.username = u, !.password = p]]
       /\ IF u = Missing \/ p = Missing
            THEN Reply(r, Fail(400, "All fields are required."))
            ELSE /\ pc' = [pc EXCEPT ![r] = "login_find"]
                 /\ UNCHANGED res
  /\ UNCHANGED <<apiKey, callVars, users, doc, dirty, conv, contacted, error>>

\* LoginResult with the password comparison left out.
LoginResultAnyPassword(found, password) ==
  IF found = <<>>
    THEN Fail(401, "Invalid username or password.")
    ELSE UserOk(found[1].username, found[1].mobile)

\* The answer to a login whose lookup returned `found`.
LoginResult(found, password) ==
  IF found = <<>> \/ found[1].password # password
    THEN Fail(401, "Invalid username or password.")
    ELSE UserOk(found[1].username, found[1].mobile)

LoginFind(r) ==
  /\ pc[r] = "login_find"
  /\ \E e \in StoreErrors \cup {NoError} :
       IF e # NoError
         THEN Caught(r, e, LoginCatch(e)) /\ UNCHANGED doc
         ELSE /\ doc' = [doc EXCEPT ![r] = FindUser(req[r].username)]
              /\ Reply(r, LoginResult(FindUser(req[r].username), req[r].password))
              /\ UNCHANGED error
  /\ UNCHANGED <<apiKey, callVars, users, req, dirty, conv, contacted>>

\* ------------------------------------------------------ CallSession store
\* CallSession.findOne({callId}): the first matching document (with its _id,
\* the position in the collection), or null.
FindSession(callId) ==
  LET hit == {i \in DOMAIN sessions : sessions[i].callId = callId}
  IN IF hit = {} THEN <<>> ELSE <<[sessions[Min(hit)] EXCEPT !._id = Min(hit)]>>

\* NewSession with the callId made up locally (the next position in the
\* collection) instead of taken from the provider's answer.
NewSessionLocalId(callId, phoneNumber) ==
  [_id |-> 0, callId |-> Len(sessions) + 1, phoneNumber |-> phoneNumber,
   status |-> "initiated", startTime |-> now, endTime |-> Undefined,
   duration |-> Undefined,
   conversationLog |-> << [timestamp |-> now, speaker |-> "system",
                           message |-> "Call initiated successfully"] >>]

\* new CallSession({callId, phoneNumber, status: 'initiated', conversationLog:
\* [{speaker: 'system', message: ...}]}): startTime and the log entry's
\* timestamp default to Date.now; endTime and duration are left undefined.
NewSession(callId, phoneNumber) ==
  [_id |-> 0, callId |-> callId, phoneNumber |-> phoneNumber,
   status |-> "initiated", startTime |-> now, endTime |-> Undefined,
   duration |-> Undefined,
   conversationLog |-> << [timestamp |-> now, speaker |-> "system",
                           message |-> "Call initiated successfully"] >>]

\* The outcome of callSession.save() for a new document: the store throws,
\* validation refuses a missing callId (`required`), the unique index refuses
\* a callId already stored, or the document is inserted.
SaveSessionError(d, e) ==
  IF e # NoError THEN e
  ELSE IF d.callId = NoConv THEN ValidationError
  ELSE IF \E i \in DOMAIN sessions : sessions[i].callId = d.callId THEN DupKeyError
  ELSE NoError

\* ------------------------------------------------------ POST /api/make-call
\* MakeCallCatch without the test for upstream status 429.
MakeCallCatchNo429(e) ==
  IF e.status = 401
    THEN Fail(401, "API Key Error: Check your ELEVENLABS_API_KEY in .env file")
  ELSE IF e.status = 400
    THEN Fail(400, "Phone Number Error: Make sure your number is in E.164 format")
  ELSE IF e.code = "ECONNABORTED"
    THEN Fail(408, "Request timeout. Please try again.")
  ELSE IF e.detail # ""
    THEN Fail(500, e.detail)
  ELSE IF e.message # ""
    THEN Fail(500, e.message)
  ELSE Fail(500, "Failed to make call")

\* The catch block: the first test that matches decides status and message.
MakeCallCatch(e) ==
  IF e.status = 401
    THEN Fail(401, "API Key Error: Check your ELEVENLABS_API_KEY in .env file")
  ELSE IF e.status = 400
    THEN Fail(400, "Phone Number Error: Make sure your number is in E.164 format")
  ELSE IF e.status = 429
    THEN Fail(429, "Rate limit exceeded. Please try again later.")
  ELSE IF e.code = "ECONNABORTED"
    THEN Fail(408, "Request timeout. Please try again.")
  ELSE IF e.detail # ""
    THEN Fail(500, e.detail)
  ELSE IF e.message # ""
    THEN Fail(500, e.message)
  ELSE Fail(500, "Failed to make call")

\* MakeCallBegin with the two checks in the other order.
MakeCallBeginKeyFirst(r) ==
  /\ pc[r] = "idle"
  /\ \E p \in PhoneNumbers \cup {Missing} :
       /\ req' = [req EXCEPT ![r] = [NoReq EXCEPT !.route = "make-call",
                                        !.phoneNumber = p]]
       /\ IF apiKey = Missing
            THEN Reply(r, Fail(500, "ElevenLabs API key not configured. Please add ELEVENLABS_API_KEY to your .env file"))
                 /\ UNCHANGED contacted
            ELSE IF p = Missing
              THEN Reply(r, Fail(400, "Phone number is required"))
                   /\ UNCHANGED contacted
              ELSE /\ pc' = [pc EXCEPT ![r] = "mc_post"]
                   /\ contacted' = [contacted EXCEPT ![r] = TRUE]
                   /\ UNCHANGED res
  /\ UNCHANGED <<apiKey, callVars, users, doc, dirty, conv, error>>

\* The request arrives; phoneNumber and the API key are checked, in this
\* order, and the provider's outbound-call request is sent.
MakeCallBegin(r) ==
  /\ pc[r] = "idle"
  /\ \E p \in PhoneNumbers \cup {Missing} :
       /\ req' = [req EXCEPT ![r] = [NoReq EXCEPT !.route = "make-call",
                                        !.phoneNumber = p]]
       /\ IF p = Missing
            THEN Reply(r, Fail(400, "Phone number is required"))
                 /\ UNCHANGED contacted
            ELSE IF apiKey = Missing
              THEN Reply(r, Fail(500, "ElevenLabs API key not configured. Please add ELEVENLABS_API_KEY to your .env file"))
                   /\ UNCHANGED contacted
              ELSE /\ pc' = [pc EXCEPT ![r] = "mc_post"]
                   /\ contacted' = [contacted EXCEPT ![r] = TRUE]
                   /\ UNCHANGED res
  /\ UNCHANGED <<apiKey, callVars, users, doc, dirty, conv, error>>

\* The provider answers the outbound-call request: an error, or a success
\* whose body carries a fresh conversation_id (or none).  On success the
\* session document is constructed and its save() is issued.
MakeCallPost(r) ==
  /\ pc[r] = "mc_post"
  /\ \/ \E e \in ProviderErrors :
          /\ Caught(r, e, MakeCallCatch(e))
          /\ UNCHANGED <<nextConv, conv, doc>>
     \/ \E c \in {NoConv, nextConv} :
          /\ c <= MaxConv
          /\ nextConv' = IF c = NoConv THEN nextConv ELSE nextConv + 1
          /\ conv' = [conv EXCEPT ![r] = c]
          /\ doc' = [doc EXCEPT ![r] = <<NewSession(c, req[r].phoneNumber)>>]
          /\ pc' = [pc EXCEPT ![r] = "mc_save"]
          /\ UNCHANGED <<res, error>>
  /\ UNCHANGED <<apiKey, now, sessions, users, req, dirty, contacted>>

\* res.json({success: true, message, callId: response.data.conversation_id,
\* sessionId: callSession._id})
MakeCallOk(c, id) ==
  [NoRes EXCEPT !.status = 200, !.success = TRUE,
                !.message = "Call initiated successfully",
                !.callId = c, !.sessionId = id]

\* callSession.save() answers.
MakeCallSave(r) ==
  /\ pc[r] = "mc_save"
  /\ \E e \in StoreErrors \cup {NoError} :
       LET thrown == SaveSessionError(doc[r][1], e)
           id == Len(sessions) + 1
       IN IF thrown # NoError
            THEN Caught(r, thrown, MakeCallCatch(thrown)) /\ UNCHANGED <<sessions, doc>>
            ELSE /\ sessions' = Append(sessions, [doc[r][1] EXCEPT !._id = id])
                 /\ doc' = [doc EXCEPT ![r] = <<[doc[r][1] EXCEPT !._id = id]>>]
                 /\ Reply(r, MakeCallOk(conv[r], id))
                 /\ UNCHANGED error
  /\ UNCHANGED <<apiKey, now, nextConv, users, req, dirty, conv, contacted>>

\* ----------------------------------------------- GET /api/call-status/:callId
StatusCatch(e) == Fail(500, "Failed to get call status")

\* The request arrives and CallSession.findOne is issued.
StatusBegin(r) ==
  /\ pc[r] = "idle"
  /\ \E c \in CallIdParams :
       req' = [req EXCEPT ![r] = [NoReq EXCEPT !.route = "call-status",
                                                  !.callId = c]]
  /\ pc' = [pc EXCEPT ![r] = "st_find"]
  /\ UNCHANGED <<apiKey, callVars, users, doc, dirty, conv, contacted, error, res>>

\* StatusResult that reports a running call's duration up to now instead of
\* the stored one.
StatusResultLive(found) ==
  IF found = <<>>
    THEN Fail(404, "Call session not found")
    ELSE [NoRes EXCEPT !.status = 200, !.success = TRUE,
                       !.callStatus = found[1].status,
                       !.duration = IF found[1].endTime = Undefined
                                      THEN (now - found[1].startTime) \div 1000
                                      ELSE found[1].duration,
                       !.startTime = found[1].startTime,
                       !.endTime = found[1].endTime]

\* The answer to a status request whose lookup returned `found`.
StatusResult(found) ==
  IF found = <<>>
    THEN Fail(404, "Call session not found")
    ELSE [NoRes EXCEPT !.status = 200, !.success = TRUE,
                       !.callStatus = found[1].status,
                       !.duration = found[1].duration,
                       !.startTime = found[1].startTime,
                       !.endTime = found[1].endTime]

StatusFind(r) ==
  /\ pc[r] = "st_find"
  /\ \E e \in StoreErrors \cup {NoError} :
       IF e # NoError
         THEN Caught(r, e, StatusCatch(e)) /\ UNCHANGED doc
         ELSE /\ doc' = [doc EXCEPT ![r] = FindSession(req[r].callId)]
              /\ Reply(r, StatusResult(FindSession(req[r].callId)))
              /\ UNCHANGED error
  /\ UNCHANGED <<apiKey, callVars, users, req, dirty, conv, contacted>>

\* ------------------------------------------------ POST /api/end-call/:callId
EndCallCatch(e) == Fail(500, "Failed to end call")

\* The answer getStatus gives for an unknown call id, given by end-call too.
EndCallNotFound == Fail(404, "Call session not found")

\* res.json({success: true, message: 'Call ended successfully'})
EndCallOk == [NoRes EXCEPT !.status = 200, !.success = TRUE,
                           !.message = "Call ended successfully"]

\* The request arrives and the provider's end-call request is sent.
EndCallBegin(r) ==
  /\ pc[r] = "idle"
  /\ \E c \in CallIdParams :
       req' = [req EXCEPT ![r] = [NoReq EXCEPT !.route = "end-call",
                                                  !.callId = c]]
  /\ pc' = [pc EXCEPT ![r] = "ec_post"]
  /\ contacted' = [contacted EXCEPT ![r] = TRUE]
  /\ UNCHANGED <<apiKey, callVars, users, doc, dirty, conv, error, res>>

\* The provider answers the end-call request; on success CallSession.findOne
\* is issued.
EndCallPost(r) ==
  /\ pc[r] = "ec_post"
  /\ \E e \in EndProviderErrors \cup {NoError} :
       IF e # NoError
         THEN Caught(r, e, EndCallCatch(e))
         ELSE /\ pc' = [pc EXCEPT ![r] = "ec_find"]
              /\ UNCHANGED <<res, error>>
  /\ UNCHANGED <<apiKey, callVars, users, req, doc, dirty, conv, contacted>>

\* Math.floor((endTime - startTime) / 1000)
Duration(startTime, endTime) == (endTime - startTime) \div 1000

\* EndCallUpdate without the assignment of endTime.
EndCallUpdateNoEndTime(d) ==
  [d EXCEPT !.status = "completed",
            !.duration = (now - d.startTime) \div 1000]

\* The three assignments of the handler, applied to the document found.
EndCallUpdate(d) ==
  [d EXCEPT !.status = "completed", !.endTime = now,
            !.duration = Duration(d.startTime, now)]

\* The paths an assignment sequence leaves modified: mongoose marks a path
\* modified only when the value assigned differs from the one loaded.
Modified(before, after) ==
  {f \in {"status", "endTime", "duration"} : after[f] # before[f]}

\* CallSession.findOne answers (or throws).  Without a session the handler
\* answers at once; with one it updates the document and issues save().
EndCallFind(r) ==
  /\ pc[r] = "ec_find"
  /\ \E e \in StoreErrors \cup {NoError} :
       LET found == FindSession(req[r].callId)
       IN IF e # NoError
            THEN Caught(r, e, EndCallCatch(e)) /\ UNCHANGED <<doc, dirty>>
            ELSE IF found = <<>>
              THEN Reply(r, EndCallOk) /\ UNCHANGED <<doc, dirty, error>>
              ELSE /\ doc' = [doc EXCEPT ![r] = <<EndCallUpdate(found[1])>>]
                   /\ dirty' = [dirty EXCEPT ![r] =
                                  Modified(found[1], EndCallUpdate(found[1]))]
                   /\ pc' = [pc EXCEPT ![r] = "ec_save"]
                   /\ UNCHANGED <<res, error>>
  /\ UNCHANGED <<apiKey, callVars, users, req, conv, contacted>>

\* callSession.save() of a loaded document: an update of the stored document
\* with that _id which sets the modified paths, and nothing else, to the
\* local values.
SaveLoaded(stored, d, paths) ==
  [f \in DOMAIN stored |-> IF f \in paths THEN d[f] ELSE stored[f]]

EndCallSave(r) ==
  /\ pc[r] = "ec_save"
  /\ \E e \in StoreErrors \cup {NoError} :
       IF e # NoError
         THEN Caught(r, e, EndCallCatch(e)) /\ UNCHANGED sessions
         ELSE /\ sessions' = [sessions EXCEPT ![doc[r][1]._id] =
                                SaveLoaded(@, doc[r][1], dirty[r])]
              /\ Reply(r, EndCallOk)
              /\ UNCHANGED error
  /\ UNCHANGED <<apiKey, now, nextConv, users, req, doc, dirty, conv, contacted>>

\* new Date() / Date.now advance between handler segments.
Tick ==
  /\ \E d \in TickMs :
       /\ now + d <= MaxTicks * d
       /\ now' = now + d
  /\ UNCHANGED <<apiKey, users, sessions, nextConv, pc, req, doc, dirty, conv,
                 contacted, error, res>>

\* ------------------------------------------------------------------ framework
\* The response has been delivered; the slot takes the next request.
Close(r) ==
  /\ pc[r] = "done"
  /\ pc' = [pc EXCEPT ![r] = "idle"]
  /\ req' = [req EXCEPT ![r] = NoReq]
  /\ doc' = [doc EXCEPT ![r] = <<>>]
  /\ dirty' = [dirty EXCEPT ![r] = {}]
  /\ conv' = [conv EXCEPT ![r] = NoConv]
  /\ contacted' = [contacted EXCEPT ![r] = FALSE]
  /\ error' = [error EXCEPT ![r] = NoError]
  /\ res' = [res EXCEPT ![r] = NoRes]
  /\ UNCHANGED <<apiKey, callVars, users>>

NextUser ==
  \E r \in Reqs :
    \/ RegisterBegin(r)
    \/ RegisterFind(r)
    \/ RegisterSave(r)
    \/ LoginBegin(r)
    \/ LoginFind(r)
    \/ Close(r)

SpecUser == Init /\ [][NextUser]_vars

NextCall ==
  \/ Tick
  \/ \E r \in Reqs :
       \/ MakeCallBegin(r)
       \/ MakeCallPost(r)
       \/ MakeCallSave(r)
       \/ StatusBegin(r)
       \/ StatusFind(r)
       \/ EndCallBegin(r)
       \/ EndCallPost(r)
       \/ EndCallFind(r)
       \/ EndCallSave(r)
       \/ Close(r)

SpecCall == Init /\ [][NextCall]_vars

Next == NextUser \/ NextCall

Spec == Init /\ [][Next]_vars

\* ==================================================================== claims

AllFields(q) == q.username # Missing /\ q.mobile # Missing /\ q.password # Missing

\* C1: whatever the order or interleaving of register requests that carry all
\* three fields, a request whose store operations do not themselves fail is
\* answered either with success and {username, mobile} or with 409
\* 'Username already exists.', and the User collection never holds two users
\* with one username.
C1_RegisterOnceThenConflict ==
  /\ \A r \in Reqs :
       (req[r].route = "register" /\ pc[r] = "done" /\ AllFields(req[r])
          /\ error[r] \notin StoreErrors)
       => \/ res[r] = UserOk(req[r].username, req[r].mobile)
          \/ res[r] = Fail(409, "Username already exists.")
  /\ \A i, j \in DOMAIN users : users[i].username = users[j].username => i = j

\* What C9 asks of one step of request r.
C9_LoginStep(r) ==
  /\ (pc[r] = "idle" /\ req'[r].route = "login")
       => /\ users' = users
          /\ IF req'[r].username = Missing \/ req'[r].password = Missing
               THEN pc'[r] = "done" /\ res'[r] = Fail(400, "All fields are required.")
               ELSE pc'[r] = "login_find"
  /\ (pc[r] = "login_find" /\ pc'[r] = "done")
       => /\ users' = users
          /\ error'[r] = NoError =>
               LET match == {i \in DOMAIN users :
                               /\ users[i].username = req[r].username
                               /\ users[i].password = req[r].password}
               IN IF match # {}
                    THEN \E i \in match :
                           res'[r] = UserOk(req[r].username, users[i].mobile)
                    ELSE res'[r] = Fail(401, "Invalid username or password.")

\* C9: a login with a missing field is answered 400; a login whose lookup
\* does not fail is answered with success and the stored {username, mobile}
\* exactly when the collection holds a user with that username and that
\* password, and with 401 'Invalid username or password.' otherwise (user
\* absent or password different); no step of a login changes the collection.
C9_Login == [][\A r \in Reqs : C9_LoginStep(r)]_vars

\* C9's case: with two users stored, a login is answered with the second
\* user's own mobile number.
C9_Witness ==
  \E r \in Reqs :
    /\ req[r].route = "login" /\ pc[r] = "done" /\ res[r].success
    /\ Len(users) = 2
    /\ res[r].user = <<[username |-> users[2].username, mobile |-> users[2].mobile]>>
    /\ users[1].mobile # users[2].mobile

\* The session documents stored under call id c.
Stored(c) == {i \in DOMAIN sessions : sessions[i].callId = c}

\* What C2 asks of one step of request r.
C2_StartCallStep(r) ==
  /\ (pc[r] = "mc_post" /\ pc'[r] = "mc_save")
       => /\ sessions' = sessions
          /\ conv'[r] \in {NoConv, nextConv}
  /\ (pc[r] = "mc_save" /\ pc'[r] = "done" /\ conv[r] # NoConv
        /\ error'[r] \notin StoreErrors)
       => /\ req[r].phoneNumber # Missing /\ apiKey # Missing
          /\ Len(sessions') = Len(sessions) + 1
          /\ SubSeq(sessions', 1, Len(sessions)) = sessions
          /\ LET s == sessions'[Len(sessions')]
             IN /\ s.callId = conv[r]
                /\ s.phoneNumber = req[r].phoneNumber
                /\ s.status = "initiated"
                /\ s.endTime = Undefined
                /\ Len(s.conversationLog) = 1
                /\ s.conversationLog[1].speaker = "system"
                /\ s.conversationLog[1].message = "Call initiated successfully"
          /\ res'[r].status = 200 /\ res'[r].success
          /\ res'[r].callId = conv[r]

\* C2: when make-call has a non-empty phoneNumber, a configured API key and a
\* provider answer carrying conversation_id c, and the store does not fail,
\* the save adds exactly one session to the collection (callId c, the given
\* phoneNumber, status 'initiated', no endTime, one log entry 'system' /
\* 'Call initiated successfully') and the answer is success with callId c;
\* nothing is stored before that, and c is the id the provider issued.
C2_StartCall == [][\A r \in Reqs : C2_StartCallStep(r)]_vars

\* C2's case: the second call placed is answered with the provider's second
\* conversation id while the first call's session is already stored.
C2_Witness ==
  \E r \in Reqs :
    /\ req[r].route = "make-call" /\ pc[r] = "done" /\ res[r].success
    /\ res[r].callId = 2
    /\ Len(sessions) = 2 /\ sessions[2].callId = 2

\* C3: once an end-call request has completed against an existing session and
\* no other end-call for that call id is still running, getStatus answers
\* with status 'completed', an endTime, the startTime the session had, and
\* duration = floor((endTime - startTime) / 1000) of the stored endTime.
C3_EndCallThenStatus ==
  \A r \in Reqs :
    ( /\ req[r].route = "end-call" /\ pc[r] = "done" /\ res[r].success
      /\ doc[r] # <<>>
      /\ \A q \in Reqs \ {r} :
           ~(req[q].route = "end-call" /\ req[q].callId = req[r].callId
               /\ pc[q] # "done") )
    => LET got == StatusResult(FindSession(req[r].callId))
       IN /\ got.status = 200
          /\ got.callStatus = "completed"
          /\ got.endTime # Undefined
          /\ got.startTime = doc[r][1].startTime
          /\ got.duration = (got.endTime - got.startTime) \div 1000

\* The claim's table of answers to a failed start-call request.
C4_Expected(e) ==
  CASE e.status = 401 ->
         Fail(401, "API Key Error: Check your ELEVENLABS_API_KEY in .env file")
    [] e.status = 400 ->
         Fail(400, "Phone Number Error: Make sure your number is in E.164 format")
    [] e.status = 429 -> Fail(429, "Rate limit exceeded. Please try again later.")
    [] e.status \notin {401, 400, 429} /\ e.code = "ECONNABORTED" ->
         Fail(408, "Request timeout. Please try again.")
    [] OTHER ->
         Fail(500, IF e.detail # "" THEN e.detail
                   ELSE IF e.message # "" THEN e.message
                   ELSE "Failed to make call")

\* What C4 asks of one step of request r.
C4_ProviderFailureStep(r) ==
  (pc[r] \in {"mc_post", "mc_save"} /\ pc'[r] = "done" /\ error'[r] # NoError)
    => /\ sessions' = sessions
       /\ res'[r] = C4_Expected(error'[r])

\* C4: when the provider's start-call request fails (and whenever make-call's
\* catch block runs), no session is created and the answer is the mapped
\* error: upstream 401 -> 401, 400 -> 400, 429 -> 429, timeout -> 408,
\* otherwise 500 with the upstream detail, else the error's message, else
\* 'Failed to make call'.
C4_ProviderFailure == [][\A r \in Reqs : C4_ProviderFailureStep(r)]_vars

\* C4's case: the provider answered 429 with a detail in its body, the
\* request was answered 429 with the rate-limit message, nothing is stored.
C4_Witness ==
  \E r \in Reqs :
    /\ req[r].route = "make-call" /\ pc[r] = "done"
    /\ error[r].status = 429 /\ error[r].detail # ""
    /\ res[r] = Fail(429, "Rate limit exceeded. Please try again later.")
    /\ sessions = <<>>

\* What C5 asks of one step of request r.
C5_ValidationStep(r) ==
  (pc[r] = "idle" /\ req'[r].route = "make-call")
    => IF req'[r].phoneNumber = Missing
         THEN /\ pc'[r] = "done"
              /\ res'[r] = Fail(400, "Phone number is required")
              /\ ~contacted'[r]
              /\ sessions' = sessions /\ nextConv' = nextConv
         ELSE IF apiKey = Missing
           THEN /\ pc'[r] = "done"
                /\ res'[r].status = 500 /\ ~res'[r].success
                /\ ~contacted'[r]
                /\ sessions' = sessions /\ nextConv' = nextConv
           ELSE pc'[r] = "mc_post"

\* C5: make-call without a phoneNumber is answered 400 'Phone number is
\* required', also when the API key is missing too; with a phoneNumber but no
\* API key it is answered 500; in both cases the handler ends without having
\* called the provider and the collection is unchanged.
C5_Validation == [][\A r \in Reqs : C5_ValidationStep(r)]_vars

\* C5's case: phoneNumber and API key both missing, answered 400.
C5_Witness ==
  /\ apiKey = Missing
  /\ \E r \in Reqs :
       /\ req[r].route = "make-call" /\ pc[r] = "done"
       /\ req[r].phoneNumber = Missing
       /\ res[r].status = 400 /\ ~contacted[r]

\* What C6 asks of one step of request r.
C6_StatusStep(r) ==
  /\ (pc[r] = "idle" /\ req'[r].route = "call-status")
       => sessions' = sessions /\ nextConv' = nextConv /\ ~contacted'[r]
  /\ (pc[r] = "st_find" /\ pc'[r] = "done")
       => /\ sessions' = sessions /\ nextConv' = nextConv /\ ~contacted'[r]
          /\ error'[r] = NoError =>
               IF Stored(req[r].callId) = {}
                 THEN res'[r] = Fail(404, "Call session not found")
                 ELSE \E i \in Stored(req[r].callId) :
                        /\ res'[r].status = 200 /\ res'[r].success
                        /\ res'[r].callStatus = sessions[i].status
                        /\ res'[r].duration = sessions[i].duration
                        /\ res'[r].startTime = sessions[i].startTime
                        /\ res'[r].endTime = sessions[i].endTime
                        /\ res'[r].callStatus = "initiated"
                             => /\ res'[r].endTime = Undefined
                                /\ res'[r].duration = Undefined

\* C6: a call-status request whose lookup does not fail is answered 404 when
\* no session has the call id, and otherwise with exactly the stored status,
\* duration, startTime and endTime (no endTime and no duration while the
\* status is 'initiated'); no step of it calls the provider or changes the
\* collection.
C6_Status == [][\A r \in Reqs : C6_StatusStep(r)]_vars

\* C6's case: a second after the call started, with no end-call so far, the
\* status is answered 'initiated' without endTime or duration.
C6_Witness ==
  \E r \in Reqs :
    /\ req[r].route = "call-status" /\ pc[r] = "done" /\ res[r].status = 200
    /\ res[r].callStatus = "initiated" /\ res[r].endTime = Undefined
    /\ res[r].duration = Undefined
    /\ now >= res[r].startTime + 1000

\* What C7 asks of one step of request r.
C7_EndUnknownStep(r) ==
  (req'[r].route = "end-call" /\ pc'[r] # pc[r] /\ Stored(req'[r].callId) = {})
    => /\ sessions' = sessions
       /\ (pc[r] = "ec_find" /\ error'[r] = NoError)
            => /\ pc'[r] = "done"
               /\ res'[r].status = 200 /\ res'[r].success
               /\ res'[r].message = "Call ended successfully"

\* C7: an end-call for a call id without a session, once the provider has
\* answered and the lookup has returned, is answered with success 'Call ended
\* successfully'; no step of such a request creates or changes a session.
C7_EndUnknown == [][\A r \in Reqs : C7_EndUnknownStep(r)]_vars

\* C7's case: a session is stored, and an end-call for another call id was
\* answered with success.
C7_Witness ==
  \E r \in Reqs :
    /\ req[r].route = "end-call" /\ pc[r] = "done" /\ res[r].success
    /\ Stored(req[r].callId) = {}
    /\ sessions # <<>>

\* The fixed message of each endpoint's catch block.
FixedMessage(route) ==
  CASE route = "register" -> "Registration failed."
    [] route = "login" -> "Login failed."
    [] route = "make-call" -> "Failed to make call"
    [] route = "call-status" -> "Failed to get call status"
    [] route = "end-call" -> "Failed to end call"

\* C8: in every endpoint a store operation that throws is answered with 500
\* and the endpoint's fixed message, whatever the error's text.
C8_StoreFailureFixedMessage ==
  \A r \in Reqs :
    (pc[r] = "done"
       /\ error[r].name \in {"MongoError", "MongoServerError", "ValidationError"})
    => res[r] = Fail(500, FixedMessage(req[r].route))

\* What C10 asks of every state.
C10_Inv ==
  \A i \in DOMAIN sessions :
    /\ sessions[i].status \in {"initiated", "completed"}
    /\ (sessions[i].status = "completed") <=> (sessions[i].endTime # Undefined)
    /\ (sessions[i].status = "completed") <=> (sessions[i].duration # Undefined)

\* What C10 asks of every step.
C10_Step ==
  \A i \in DOMAIN sessions :
    /\ i \in DOMAIN sessions'
    /\ sessions'[i].status # sessions[i].status
         => /\ sessions[i].status = "initiated"
            /\ sessions'[i].status = "completed"
            /\ \E r \in Reqs :
                 /\ req[r].route = "end-call" /\ req[r].callId = sessions[i].callId
                 /\ pc[r] = "ec_save" /\ pc'[r] = "done"

\* C10: every stored session has status 'initiated' or 'completed', with
\* endTime and duration set exactly when it is 'completed'; sessions are
\* never removed, and a status changes only from 'initiated' to 'completed',
\* in the save of an end-call for that call id.
C10_Lifecycle == []C10_Inv /\ [][C10_Step]_vars

\* C10's case: a completed session that lasted a second beside one that is
\* still 'initiated'.
C10_Witness ==
  \E i, j \in DOMAIN sessions :
    /\ sessions[i].status = "completed" /\ sessions[i].duration = 1
    /\ sessions[j].status = "initiated"

====
